---- MODULE Spec2Model ----
(***************************************************************************)
(* The browser pool of pkg/browser (BrowserPool: Initialize, GetContext,   *)
(* ReleaseContext, Close) as a state machine.  Callers are goroutines that *)
(* invoke the four methods concurrently on one shared pool.  A step is one *)
(* critical section of p.mu, one unlocked read of the pool's flags, one    *)
(* call of Browser.CreateContext, or one branch of a select.               *)
(***************************************************************************)
EXTENDS Integers, Sequences, FiniteSets, TLC

\* ---------------------------------------------------------------- bounds
NumCallers == 2      \* goroutines calling into the pool
MaxWorkers == 2      \* largest configured worker count (maxWorkers)
MaxCalls == 5        \* method calls started over a behaviour
MaxLines == 2        \* lines of a custom-request file
MaxHeaders == 2      \* header tokens on a request line
MaxLineLen == 2      \* characters of a line of a payload file

Callers == 1..NumCallers
NoCaller == 0        \* p.mu is free
NilCtx == 0          \* a nil context.Context

VARIABLES
    maxWorkers,      \* p.maxWorkers, cap(p.pool)
    pool,            \* p.pool: the buffered channel, oldest first
    cancelFuncs,     \* p.cancelFuncs: the contexts whose cancel is stored
    mu,              \* p.mu: the caller holding it, or NoCaller
    ctxDone,         \* p.ctx is cancelled (p.cancel() was called)
    initializing,    \* p.initializing
    initialized,     \* p.initialized
    initErrCount,    \* p.initErrCount
    initialization,  \* p.initialization: the WaitGroup counter
    pc,              \* where each caller is
    inGet,           \* the caller's Initialize was called by GetContext
    i,               \* Initialize's loop index
    browserCtx,      \* Initialize's local browserCtx (NilCtx: err != nil)
    arg,             \* ReleaseContext's argument ctx
    timer,           \* the time.After channel of the caller's select
    held,            \* the contexts each caller has been handed
    ret,             \* what the caller's last call returned
    nextCtx,         \* the identity of the next context created
    cancelCalls,     \* per created context: invocations of its cancel func
    ephemeral,       \* contexts created by GetContext's one-time branch
    pooled,          \* contexts created by Initialize and sent to p.pool
    attempts,        \* CreateContext calls made by Initialize, in total
    callAttempts,    \* CreateContext calls made within the caller's call
    created,         \* contexts the caller's Initialize run created
    runs,            \* Initialize runs started
    runsDone,        \* per finished run: it ended with initialized = TRUE
    joined,          \* the run in progress when Initialize returned early
    startState,      \* the pool's state when the caller's call started
    closeReturned,   \* some Close call has returned
    cleanup,         \* one-time contexts whose clean-up goroutine is pending
    calls,           \* method calls started so far
    initAfterClose,  \* an Initialize run was in progress at or after a Close
    woken,           \* callers whose blocked Wait() the WaitGroup has released
    input,           \* the argument a pure function is applied to
    output           \* what that function returned

vars == <<maxWorkers, pool, cancelFuncs, mu, ctxDone, initializing, initialized,
          initErrCount, initialization, pc, inGet, i, browserCtx, arg, timer,
          held, ret, nextCtx, cancelCalls, ephemeral, pooled, attempts,
          callAttempts, created, runs, runsDone, joined, startState,
          closeReturned, cleanup, calls, initAfterClose, woken, input,
          output>>

SetOf(s) == {s[k] : k \in 1..Len(s)}

\* An Initialize run is under way: p.initializing is set, or the run has
\* cleared it at line 425 and not yet decided its outcome at line 428.
RunInProgress == initializing \/ \E t \in Callers : pc[t] = "init_outcome"

\* The state of section 4.3 read off the pool's fields.
PoolState ==
    IF closeReturned THEN "Closed"
    ELSE IF ctxDone THEN "Closing"
    ELSE IF RunInProgress THEN "Initializing"
    ELSE IF initialized THEN "Ready"
    ELSE IF Len(runsDone) > 0 THEN "Failed"
    ELSE "NotStarted"

NoRet == [op |-> "none", ctx |-> NilCtx, err |-> "nil"]

\* NewBrowserPool: an empty channel of capacity maxWorkers, no cancel funcs,
\* a live context, both flags false.
NewBrowserPool(n) ==
    /\ maxWorkers = n
    /\ pool = <<>>
    /\ cancelFuncs = <<>>
    /\ mu = NoCaller
    /\ ctxDone = FALSE
    /\ initializing = FALSE
    /\ initialized = FALSE
    /\ initErrCount = 0
    /\ initialization = 0
    /\ pc = [t \in Callers |-> "idle"]
    /\ inGet = [t \in Callers |-> FALSE]
    /\ i = [t \in Callers |-> 0]
    /\ browserCtx = [t \in Callers |-> NilCtx]
    /\ arg = [t \in Callers |-> NilCtx]
    /\ timer = [t \in Callers |-> "off"]
    /\ held = [t \in Callers |-> {}]
    /\ ret = [t \in Callers |-> NoRet]
    /\ nextCtx = 1
    /\ cancelCalls = <<>>
    /\ ephemeral = {}
    /\ pooled = {}
    /\ attempts = 0
    /\ callAttempts = [t \in Callers |-> 0]
    /\ created = [t \in Callers |-> {}]
    /\ runs = 0
    /\ runsDone = <<>>
    /\ joined = [t \in Callers |-> 0]
    /\ startState = [t \in Callers |-> "NotStarted"]
    /\ closeReturned = FALSE
    /\ cleanup = {}
    /\ calls = 0
    /\ initAfterClose = FALSE
    /\ woken = {}

\* The variables of the pool, which the functions outside it leave alone.
poolVars == <<maxWorkers, pool, cancelFuncs, mu, ctxDone, initializing,
              initialized, initErrCount, initialization, pc, inGet, i,
              browserCtx, arg, timer, held, ret, nextCtx, cancelCalls,
              ephemeral, pooled, attempts, callAttempts, created, runs,
              runsDone, joined, startState, closeReturned, cleanup, calls,
              initAfterClose, woken>>

\* A pool of any configured size; no pure function has been applied.
Init ==
    /\ \E n \in 1..MaxWorkers : NewBrowserPool(n)
    /\ input = <<>>
    /\ output = <<>>

\* Browser.CreateContext(p.ctx).  launchOk: the executable is found and
\* chromedp.Run(browserCtx, Navigate("about:blank")) succeeds.  A launch under
\* an already cancelled parent context fails.  On success the context is new
\* and its cancel func (timeoutCancel) has been invoked once by the deferred
\* call of line 298.
CreateContext(launchOk) ==
    IF launchOk /\ ~ctxDone
    THEN [ctx |-> nextCtx, err |-> "nil"]
    ELSE [ctx |-> NilCtx, err |-> "BrowserStartFailed"]

\* The bookkeeping of one CreateContext call that returned r.
Created(r) ==
    IF r.ctx # NilCtx
    THEN /\ nextCtx' = nextCtx + 1
         /\ cancelCalls' = Append(cancelCalls, 1)
    ELSE UNCHANGED <<nextCtx, cancelCalls>>

\* A caller starts a method call.
StartCall(t, label) ==
    /\ pc[t] = "idle"
    /\ calls < MaxCalls
    /\ calls' = calls + 1
    /\ pc' = [pc EXCEPT ![t] = label]
    /\ ret' = [ret EXCEPT ![t] = NoRet]
    /\ callAttempts' = [callAttempts EXCEPT ![t] = 0]
    /\ joined' = [joined EXCEPT ![t] = 0]
    /\ startState' = [startState EXCEPT ![t] = PoolState]

\* A call returns r to its caller.
Return(t, r) ==
    /\ pc' = [pc EXCEPT ![t] = "idle"]
    /\ ret' = [ret EXCEPT ![t] = r]

\* ------------------------------------------------------------ Initialize
CallInitialize(t) ==
    /\ StartCall(t, "init_lock")
    /\ inGet' = [inGet EXCEPT ![t] = FALSE]
    /\ UNCHANGED <<maxWorkers, pool, cancelFuncs, mu, ctxDone, initializing,
                   initialized, initErrCount, initialization, i, browserCtx,
                   arg, timer, held, nextCtx, cancelCalls, ephemeral, pooled,
                   attempts, created, runs, runsDone, closeReturned, cleanup,
                   initAfterClose, woken, input, output>>

\* Initialize returns e: to GetContext (line 442) when GetContext called it,
\* else to the caller.  GetContext returns (nil, err) when err != nil.
InitializeReturns(t, e) ==
    IF inGet[t]
    THEN IF e # "nil"
         THEN Return(t, [op |-> "GetContext", ctx |-> NilCtx, err |-> e])
         ELSE /\ pc' = [pc EXCEPT ![t] = "get_wait_check"]
              /\ UNCHANGED ret
    ELSE Return(t, [op |-> "Initialize", ctx |-> NilCtx, err |-> e])

\* Lines 388-395, the guarded check, when a run is in progress or the pool
\* is initialized: return nil at once.
Initialize_Skip(t) ==
    /\ pc[t] = "init_lock"
    /\ mu = NoCaller
    /\ initializing \/ initialized
    /\ joined' = [joined EXCEPT ![t] = IF initializing THEN runs ELSE 0]
    /\ InitializeReturns(t, "nil")
    /\ UNCHANGED <<maxWorkers, pool, cancelFuncs, mu, ctxDone, initializing,
                   initialized, initErrCount, initialization, inGet, i,
                   browserCtx, arg, timer, held, nextCtx, cancelCalls,
                   ephemeral, pooled, attempts, callAttempts, created, runs,
                   runsDone, startState, closeReturned, cleanup, calls,
                   initAfterClose, woken, input, output>>

\* Lines 388-393 otherwise: this caller performs the run.  It sets
\* p.initializing and still holds p.mu; GetContext reads the flag without
\* the mutex, so the write is visible before line 394 runs.
Initialize_Begin(t) ==
    /\ pc[t] = "init_lock"
    /\ mu = NoCaller
    /\ ~(initializing \/ initialized)
    /\ mu' = t
    /\ initializing' = TRUE
    /\ i' = [i EXCEPT ![t] = 0]
    /\ created' = [created EXCEPT ![t] = {}]
    /\ runs' = runs + 1
    /\ initAfterClose' = (initAfterClose \/ ctxDone)
    /\ pc' = [pc EXCEPT ![t] = "init_add"]
    /\ UNCHANGED <<maxWorkers, pool, cancelFuncs, ctxDone, initialized,
                   initErrCount, initialization, inGet, browserCtx, arg,
                   timer, held, ret, nextCtx, cancelCalls, ephemeral, pooled,
                   attempts, callAttempts, runsDone, joined, startState,
                   closeReturned, cleanup, calls, woken, input, output>>

\* Lines 394-395: p.initialization.Add(1), then the unlock.
Initialize_Add(t) ==
    /\ pc[t] = "init_add"
    /\ initialization' = initialization + 1
    /\ mu' = NoCaller
    /\ pc' = [pc EXCEPT ![t] = "init_loop"]
    /\ UNCHANGED <<maxWorkers, pool, cancelFuncs, ctxDone, initializing,
                   initialized, initErrCount, inGet, i, browserCtx, arg,
                   timer, held, ret, nextCtx, cancelCalls, ephemeral, pooled,
                   attempts, callAttempts, created, runs, runsDone, joined,
                   startState, closeReturned, cleanup, calls, initAfterClose,
                   woken, input, output>>

\* Line 402: one creation attempt of the loop.
Initialize_Create(t) ==
    /\ pc[t] = "init_loop"
    /\ i[t] < maxWorkers
    /\ \E launchOk \in BOOLEAN :
         LET r == CreateContext(launchOk) IN
         /\ browserCtx' = [browserCtx EXCEPT ![t] = r.ctx]
         /\ Created(r)
         /\ pc' = [pc EXCEPT ![t] = IF r.ctx = NilCtx THEN "init_err"
                                                      ELSE "init_store"]
    /\ attempts' = attempts + 1
    /\ callAttempts' = [callAttempts EXCEPT ![t] = @ + 1]
    /\ UNCHANGED <<maxWorkers, pool, cancelFuncs, mu, ctxDone, initializing,
                   initialized, initErrCount, initialization, inGet, i, arg,
                   timer, held, ret, ephemeral, pooled, created, runs,
                   runsDone, joined, startState, closeReturned, cleanup, calls,
                   initAfterClose, woken, input, output>>

\* Lines 403-414: a failed attempt is counted and the loop goes on.
Initialize_Error(t) ==
    /\ pc[t] = "init_err"
    /\ mu = NoCaller
    /\ initErrCount' = initErrCount + 1
    /\ i' = [i EXCEPT ![t] = @ + 1]
    /\ pc' = [pc EXCEPT ![t] = "init_loop"]
    /\ UNCHANGED <<maxWorkers, pool, cancelFuncs, mu, ctxDone, initializing,
                   initialized, initialization, inGet, browserCtx, arg, timer,
                   held, ret, nextCtx, cancelCalls, ephemeral, pooled,
                   attempts, callAttempts, created, runs, runsDone, joined,
                   startState, closeReturned, cleanup, calls,
                   initAfterClose, woken, input, output>>

\* Lines 416-417: take p.mu and store the cancel func.
Initialize_Store(t) ==
    /\ pc[t] = "init_store"
    /\ mu = NoCaller
    /\ mu' = t
    /\ cancelFuncs' = Append(cancelFuncs, browserCtx[t])
    /\ pc' = [pc EXCEPT ![t] = "init_send"]
    /\ UNCHANGED <<maxWorkers, pool, ctxDone, initializing, initialized,
                   initErrCount, initialization, inGet, i, browserCtx, arg,
                   timer, held, ret, nextCtx, cancelCalls, ephemeral, pooled,
                   attempts, callAttempts, created, runs, runsDone, joined,
                   startState, closeReturned, cleanup, calls,
                   initAfterClose, woken, input, output>>

\* Lines 418-419: the send on p.pool, made while holding p.mu; it blocks
\* while the channel is full.
Initialize_Send(t) ==
    /\ pc[t] = "init_send"
    /\ Len(pool) < maxWorkers
    /\ pool' = Append(pool, browserCtx[t])
    /\ pooled' = pooled \cup {browserCtx[t]}
    /\ created' = [created EXCEPT ![t] = @ \cup {browserCtx[t]}]
    /\ mu' = NoCaller
    /\ i' = [i EXCEPT ![t] = @ + 1]
    /\ pc' = [pc EXCEPT ![t] = "init_loop"]
    /\ UNCHANGED <<maxWorkers, cancelFuncs, ctxDone, initializing, initialized,
                   initErrCount, initialization, inGet, browserCtx, arg, timer,
                   held, ret, nextCtx, cancelCalls, ephemeral, attempts,
                   callAttempts, runs, runsDone, joined, startState,
                   closeReturned, cleanup, calls,
                   initAfterClose, woken, input, output>>

\* Lines 424-425: the loop is over; the run takes p.mu and clears
\* p.initializing, which unlocked readers see before line 428 runs.
Initialize_Finish(t) ==
    /\ pc[t] = "init_loop"
    /\ i[t] >= maxWorkers
    /\ mu = NoCaller
    /\ mu' = t
    /\ initializing' = FALSE
    /\ pc' = [pc EXCEPT ![t] = "init_outcome"]
    /\ UNCHANGED <<maxWorkers, pool, cancelFuncs, ctxDone, initialized,
                   initErrCount, initialization, inGet, i, browserCtx, arg,
                   timer, held, ret, nextCtx, cancelCalls, ephemeral, pooled,
                   attempts, callAttempts, created, runs, runsDone, joined,
                   startState, closeReturned, cleanup, calls, initAfterClose,
                   woken, input, output>>

\* A run that ends initialized whether or not a cancel func is stored.
Initialize_Outcome_AlwaysReady(t) ==
    /\ pc[t] = "init_outcome"
    /\ initialized' = TRUE
    /\ runsDone' = Append(runsDone, TRUE)
    /\ mu' = NoCaller
    /\ pc' = [pc EXCEPT ![t] = "init_ok"]
    /\ UNCHANGED <<maxWorkers, pool, cancelFuncs, ctxDone, initializing,
                   initErrCount, initialization, inGet, i, browserCtx, arg,
                   timer, held, ret, nextCtx, cancelCalls, ephemeral, pooled,
                   attempts, callAttempts, created, runs, joined, startState,
                   closeReturned, cleanup, calls, initAfterClose, woken,
                   input, output>>

\* Lines 428-436: the run ends initialized when a cancel func is stored, and
\* unlocks.
Initialize_Outcome(t) ==
    /\ pc[t] = "init_outcome"
    /\ initialized' = IF Len(cancelFuncs) > 0 THEN TRUE ELSE initialized
    /\ runsDone' = Append(runsDone, Len(cancelFuncs) > 0)
    /\ mu' = NoCaller
    /\ pc' = [pc EXCEPT ![t] = IF Len(cancelFuncs) > 0 THEN "init_ok"
                                                        ELSE "init_failed"]
    /\ UNCHANGED <<maxWorkers, pool, cancelFuncs, ctxDone, initializing,
                   initErrCount, initialization, inGet, i, browserCtx, arg,
                   timer, held, ret, nextCtx, cancelCalls, ephemeral, pooled,
                   attempts, callAttempts, created, runs, joined, startState,
                   closeReturned, cleanup, calls, initAfterClose, woken,
                   input, output>>

\* Line 397 (deferred) and the return of line 432 or 436.
Initialize_Return(t) ==
    /\ pc[t] \in {"init_ok", "init_failed"}
    /\ initialization' = initialization - 1
    /\ woken' = IF initialization = 1
                THEN woken \cup {u \in Callers : pc[u] = "get_blocked"}
                ELSE woken
    /\ InitializeReturns(t, IF pc[t] = "init_ok" THEN "nil" ELSE "InitFailed")
    /\ i' = [i EXCEPT ![t] = 0]
    /\ browserCtx' = [browserCtx EXCEPT ![t] = NilCtx]
    /\ UNCHANGED <<maxWorkers, pool, cancelFuncs, mu, ctxDone, initializing,
                   initialized, initErrCount, inGet, arg, timer,
                   held, nextCtx, cancelCalls, ephemeral, pooled, attempts,
                   callAttempts, created, runs, runsDone, joined, startState,
                   closeReturned, cleanup, calls,
                   initAfterClose, input, output>>

\* ------------------------------------------------------------ GetContext
CallGetContext(t) ==
    /\ StartCall(t, "get_check")
    /\ inGet' = [inGet EXCEPT ![t] = FALSE]
    /\ UNCHANGED <<maxWorkers, pool, cancelFuncs, mu, ctxDone, initializing,
                   initialized, initErrCount, initialization, i, browserCtx,
                   arg, timer, held, nextCtx, cancelCalls, ephemeral, pooled,
                   attempts, created, runs, runsDone, closeReturned, cleanup,
                   initAfterClose, woken, input, output>>

\* Line 441: the flags are read without p.mu; when both are false GetContext
\* calls Initialize.
GetContext_Check(t) ==
    /\ pc[t] = "get_check"
    /\ IF ~initialized /\ ~initializing
       THEN /\ pc' = [pc EXCEPT ![t] = "init_lock"]
            /\ inGet' = [inGet EXCEPT ![t] = TRUE]
       ELSE /\ pc' = [pc EXCEPT ![t] = "get_wait_check"]
            /\ UNCHANGED inGet
    /\ UNCHANGED <<maxWorkers, pool, cancelFuncs, mu, ctxDone, initializing,
                   initialized, initErrCount, initialization, i, browserCtx,
                   arg, timer, held, ret, nextCtx, cancelCalls, ephemeral,
                   pooled, attempts, callAttempts, created, runs, runsDone,
                   joined, startState, closeReturned, cleanup, calls,
                   initAfterClose, woken, input, output>>

\* Line 449: wait only when p.initializing reads true.
GetContext_WaitCheck(t) ==
    /\ pc[t] = "get_wait_check"
    /\ pc' = [pc EXCEPT ![t] = IF initializing THEN "get_wait"
                                               ELSE "get_init_check"]
    /\ UNCHANGED <<maxWorkers, pool, cancelFuncs, mu, ctxDone, initializing,
                   initialized, initErrCount, initialization, inGet, i,
                   browserCtx, arg, timer, held, ret, nextCtx, cancelCalls,
                   ephemeral, pooled, attempts, callAttempts, created, runs,
                   runsDone, joined, startState, closeReturned, cleanup, calls,
                   initAfterClose, woken, input, output>>

\* Line 450, sync.WaitGroup.Wait: with the counter at zero the call returns
\* at once; otherwise the caller registers as a waiter and blocks.
GetContext_Wait(t) ==
    /\ pc[t] = "get_wait"
    /\ pc' = [pc EXCEPT ![t] = IF initialization = 0 THEN "get_init_check"
                                                     ELSE "get_blocked"]
    /\ UNCHANGED <<maxWorkers, pool, cancelFuncs, mu, ctxDone, initializing,
                   initialized, initErrCount, initialization, inGet, i,
                   browserCtx, arg, timer, held, ret, nextCtx, cancelCalls,
                   ephemeral, pooled, attempts, callAttempts, created, runs,
                   runsDone, joined, startState, closeReturned, cleanup, calls,
                   initAfterClose, woken, input, output>>

\* Line 450, the waiter released by the Done that brought the counter to
\* zero.  Wait() reads the counter again before it returns and panics
\* ("WaitGroup is reused before previous Wait has returned") when a later
\* Add (line 394, a new Initialize run) got there first.  The panic is not
\* recovered anywhere, so the process dies: no goroutine takes another step.
GetContext_Woken(t) ==
    /\ pc[t] = "get_blocked"
    /\ t \in woken
    /\ woken' = woken \ {t}
    /\ IF initialization = 0
       THEN /\ pc' = [pc EXCEPT ![t] = "get_init_check"]
            /\ UNCHANGED cleanup
       ELSE /\ pc' = [u \in Callers |-> "panic"]
            /\ cleanup' = {}
    /\ UNCHANGED <<maxWorkers, pool, cancelFuncs, mu, ctxDone, initializing,
                   initialized, initErrCount, initialization, inGet, i,
                   browserCtx, arg, timer, held, ret, nextCtx, cancelCalls,
                   ephemeral, pooled, attempts, callAttempts, created, runs,
                   runsDone, joined, startState, closeReturned, calls,
                   initAfterClose, input, output>>

\* Line 454: p.initialized decides between the one-time context and the
\* select on the pool; entering the select starts its time.After timer.
GetContext_InitCheck(t) ==
    /\ pc[t] = "get_init_check"
    /\ IF ~initialized
       THEN /\ pc' = [pc EXCEPT ![t] = "get_onetime"]
            /\ UNCHANGED timer
       ELSE /\ pc' = [pc EXCEPT ![t] = "get_select"]
            /\ timer' = [timer EXCEPT ![t] = "armed"]
    /\ UNCHANGED <<maxWorkers, pool, cancelFuncs, mu, ctxDone, initializing,
                   initialized, initErrCount, initialization, inGet, i,
                   browserCtx, arg, held, ret, nextCtx, cancelCalls,
                   ephemeral, pooled, attempts, callAttempts, created, runs,
                   runsDone, joined, startState, closeReturned, cleanup, calls,
                   initAfterClose, woken, input, output>>

\* Lines 455-467: the one-time context.
GetContext_OneTime(t) ==
    /\ pc[t] = "get_onetime"
    /\ \E launchOk \in BOOLEAN :
         LET r == CreateContext(launchOk) IN
         /\ Created(r)
         /\ Return(t, [op |-> "GetContext", ctx |-> r.ctx, err |-> r.err])
         /\ IF r.ctx # NilCtx
            THEN /\ ephemeral' = ephemeral \cup {r.ctx}
                 /\ cleanup' = cleanup \cup {r.ctx}
                 /\ held' = [held EXCEPT ![t] = @ \cup {r.ctx}]
            ELSE UNCHANGED <<ephemeral, cleanup, held>>
    /\ callAttempts' = [callAttempts EXCEPT ![t] = @ + 1]
    /\ UNCHANGED <<maxWorkers, pool, cancelFuncs, mu, ctxDone, initializing,
                   initialized, initErrCount, initialization, inGet, i,
                   browserCtx, arg, timer, pooled, attempts, created,
                   runs, runsDone, joined, startState, closeReturned, calls,
                   initAfterClose, woken, input, output>>

\* Lines 462-465: the goroutine of a one-time context; the context is done
\* as soon as CreateContext has returned, so it invokes cancel.
OneTimeCleanup(c) ==
    /\ c \in cleanup
    /\ cleanup' = cleanup \ {c}
    /\ cancelCalls' = [cancelCalls EXCEPT ![c] = @ + 1]
    /\ UNCHANGED <<maxWorkers, pool, cancelFuncs, mu, ctxDone, initializing,
                   initialized, initErrCount, initialization, pc, inGet, i,
                   browserCtx, arg, timer, held, ret, nextCtx, ephemeral,
                   pooled, attempts, callAttempts, created, runs, runsDone,
                   joined, startState, closeReturned, calls,
                   initAfterClose, woken, input, output>>

\* A receive that leaves the context in the channel.
GetContext_Recv_Peek(t) ==
    /\ pc[t] = "get_select"
    /\ pool # <<>>
    /\ pool' = pool
    /\ held' = [held EXCEPT ![t] = @ \cup {Head(pool)}]
    /\ timer' = [timer EXCEPT ![t] = "off"]
    /\ Return(t, [op |-> "GetContext", ctx |-> Head(pool), err |-> "nil"])
    /\ UNCHANGED <<maxWorkers, cancelFuncs, mu, ctxDone, initializing,
                   initialized, initErrCount, initialization, inGet, i,
                   browserCtx, arg, nextCtx, cancelCalls, ephemeral, pooled,
                   attempts, callAttempts, created, runs, runsDone, joined,
                   startState, closeReturned, cleanup, calls,
                   initAfterClose, woken, input, output>>

\* Line 472: a context is received from the channel.
GetContext_Recv(t) ==
    /\ pc[t] = "get_select"
    /\ pool # <<>>
    /\ pool' = Tail(pool)
    /\ held' = [held EXCEPT ![t] = @ \cup {Head(pool)}]
    /\ timer' = [timer EXCEPT ![t] = "off"]
    /\ Return(t, [op |-> "GetContext", ctx |-> Head(pool), err |-> "nil"])
    /\ UNCHANGED <<maxWorkers, cancelFuncs, mu, ctxDone, initializing,
                   initialized, initErrCount, initialization, inGet, i,
                   browserCtx, arg, nextCtx, cancelCalls, ephemeral, pooled,
                   attempts, callAttempts, created, runs, runsDone, joined,
                   startState, closeReturned, cleanup, calls,
                   initAfterClose, woken, input, output>>

\* A select whose Done case is looked at only once the timer has fired.
GetContext_Closed_Late(t) ==
    /\ pc[t] = "get_select"
    /\ ctxDone
    /\ timer[t] = "fired"
    /\ timer' = [timer EXCEPT ![t] = "off"]
    /\ Return(t, [op |-> "GetContext", ctx |-> NilCtx, err |-> "PoolClosed"])
    /\ UNCHANGED <<maxWorkers, pool, cancelFuncs, mu, ctxDone, initializing,
                   initialized, initErrCount, initialization, inGet, i,
                   browserCtx, arg, held, nextCtx, cancelCalls, ephemeral,
                   pooled, attempts, callAttempts, created, runs, runsDone,
                   joined, startState, closeReturned, cleanup, calls,
                   initAfterClose, woken, input, output>>

\* Line 474: p.ctx is done.
GetContext_Closed(t) ==
    /\ pc[t] = "get_select"
    /\ ctxDone
    /\ timer' = [timer EXCEPT ![t] = "off"]
    /\ Return(t, [op |-> "GetContext", ctx |-> NilCtx, err |-> "PoolClosed"])
    /\ UNCHANGED <<maxWorkers, pool, cancelFuncs, mu, ctxDone, initializing,
                   initialized, initErrCount, initialization, inGet, i,
                   browserCtx, arg, held, nextCtx, cancelCalls, ephemeral,
                   pooled, attempts, callAttempts, created, runs, runsDone,
                   joined, startState, closeReturned, cleanup, calls,
                   initAfterClose, woken, input, output>>

\* Line 476: the 5 s timer has fired.
GetContext_Timeout(t) ==
    /\ pc[t] = "get_select"
    /\ timer[t] = "fired"
    /\ timer' = [timer EXCEPT ![t] = "off"]
    /\ Return(t, [op |-> "GetContext", ctx |-> NilCtx, err |-> "AcquireTimeout"])
    /\ UNCHANGED <<maxWorkers, pool, cancelFuncs, mu, ctxDone, initializing,
                   initialized, initErrCount, initialization, inGet, i,
                   browserCtx, arg, held, nextCtx, cancelCalls, ephemeral,
                   pooled, attempts, callAttempts, created, runs, runsDone,
                   joined, startState, closeReturned, cleanup, calls,
                   initAfterClose, woken, input, output>>

\* -------------------------------------------------------- ReleaseContext
\* A caller gives back a context it holds.
CallReleaseContext(t) ==
    /\ StartCall(t, "rel_check")
    /\ \E c \in held[t] :
         /\ arg' = [arg EXCEPT ![t] = c]
         /\ held' = [held EXCEPT ![t] = @ \ {c}]
    /\ UNCHANGED <<maxWorkers, pool, cancelFuncs, mu, ctxDone, initializing,
                   initialized, initErrCount, initialization, inGet, i,
                   browserCtx, timer, nextCtx, cancelCalls, ephemeral, pooled,
                   attempts, created, runs, runsDone, closeReturned, cleanup,
                   initAfterClose, woken, input, output>>

\* Lines 483-486: p.initialized, read without p.mu, decides whether the
\* context is returned to the pool at all.
ReleaseContext_Check(t) ==
    /\ pc[t] = "rel_check"
    /\ IF ~initialized
       THEN /\ Return(t, [op |-> "ReleaseContext", ctx |-> NilCtx, err |-> "nil"])
            /\ arg' = [arg EXCEPT ![t] = NilCtx]
            /\ UNCHANGED timer
       ELSE /\ pc' = [pc EXCEPT ![t] = "rel_select"]
            /\ timer' = [timer EXCEPT ![t] = "armed"]
            /\ UNCHANGED <<ret, arg>>
    /\ UNCHANGED <<maxWorkers, pool, cancelFuncs, mu, ctxDone, initializing,
                   initialized, initErrCount, initialization, inGet, i,
                   browserCtx, held, nextCtx, cancelCalls, ephemeral, pooled,
                   attempts, callAttempts, created, runs, runsDone, joined,
                   startState, closeReturned, cleanup, calls,
                   initAfterClose, woken, input, output>>

\* A send that goes through whatever the channel already holds.
ReleaseContext_Send_Unbounded(t) ==
    /\ pc[t] = "rel_select"
    /\ pool' = Append(pool, arg[t])
    /\ arg' = [arg EXCEPT ![t] = NilCtx]
    /\ timer' = [timer EXCEPT ![t] = "off"]
    /\ Return(t, [op |-> "ReleaseContext", ctx |-> NilCtx, err |-> "nil"])
    /\ UNCHANGED <<maxWorkers, cancelFuncs, mu, ctxDone, initializing,
                   initialized, initErrCount, initialization, inGet, i,
                   browserCtx, held, nextCtx, cancelCalls, ephemeral, pooled,
                   attempts, callAttempts, created, runs, runsDone, joined,
                   startState, closeReturned, cleanup, calls,
                   initAfterClose, woken, input, output>>

\* Line 489: the context is sent on the channel, which takes it only while
\* it holds fewer than maxWorkers contexts (line 376).
ReleaseContext_Send(t) ==
    /\ pc[t] = "rel_select"
    /\ Len(pool) < maxWorkers
    /\ pool' = Append(pool, arg[t])
    /\ arg' = [arg EXCEPT ![t] = NilCtx]
    /\ timer' = [timer EXCEPT ![t] = "off"]
    /\ Return(t, [op |-> "ReleaseContext", ctx |-> NilCtx, err |-> "nil"])
    /\ UNCHANGED <<maxWorkers, cancelFuncs, mu, ctxDone, initializing,
                   initialized, initErrCount, initialization, inGet, i,
                   browserCtx, held, nextCtx, cancelCalls, ephemeral, pooled,
                   attempts, callAttempts, created, runs, runsDone, joined,
                   startState, closeReturned, cleanup, calls,
                   initAfterClose, woken, input, output>>

\* Line 491: p.ctx is done; the context is not returned.
ReleaseContext_Closed(t) ==
    /\ pc[t] = "rel_select"
    /\ ctxDone
    /\ arg' = [arg EXCEPT ![t] = NilCtx]
    /\ timer' = [timer EXCEPT ![t] = "off"]
    /\ Return(t, [op |-> "ReleaseContext", ctx |-> NilCtx, err |-> "nil"])
    /\ UNCHANGED <<maxWorkers, pool, cancelFuncs, mu, ctxDone, initializing,
                   initialized, initErrCount, initialization, inGet, i,
                   browserCtx, held, nextCtx, cancelCalls, ephemeral, pooled,
                   attempts, callAttempts, created, runs, runsDone, joined,
                   startState, closeReturned, cleanup, calls,
                   initAfterClose, woken, input, output>>

\* Line 493: the 1 s timer has fired; the context is discarded.
ReleaseContext_Timeout(t) ==
    /\ pc[t] = "rel_select"
    /\ timer[t] = "fired"
    /\ arg' = [arg EXCEPT ![t] = NilCtx]
    /\ timer' = [timer EXCEPT ![t] = "off"]
    /\ Return(t, [op |-> "ReleaseContext", ctx |-> NilCtx, err |-> "nil"])
    /\ UNCHANGED <<maxWorkers, pool, cancelFuncs, mu, ctxDone, initializing,
                   initialized, initErrCount, initialization, inGet, i,
                   browserCtx, held, nextCtx, cancelCalls, ephemeral, pooled,
                   attempts, callAttempts, created, runs, runsDone, joined,
                   startState, closeReturned, cleanup, calls,
                   initAfterClose, woken, input, output>>

\* The time.After channel of lines 476 and 493 delivers.  A select whose
\* channel case or Done case is ready proceeds at once, so the timer
\* fires only on a caller that is blocked in its select.
TimerFire(t) ==
    /\ timer[t] = "armed"
    /\ ~ctxDone
    /\ \/ pc[t] = "get_select" /\ pool = <<>>
       \/ pc[t] = "rel_select" /\ Len(pool) >= maxWorkers
    /\ timer' = [timer EXCEPT ![t] = "fired"]
    /\ UNCHANGED <<maxWorkers, pool, cancelFuncs, mu, ctxDone, initializing,
                   initialized, initErrCount, initialization, pc, inGet, i,
                   browserCtx, arg, held, ret, nextCtx, cancelCalls,
                   ephemeral, pooled, attempts, callAttempts, created, runs,
                   runsDone, joined, startState, closeReturned, cleanup, calls,
                   initAfterClose, woken, input, output>>

\* ----------------------------------------------------------------- Close
CallClose(t) ==
    /\ StartCall(t, "close_lock")
    /\ UNCHANGED <<maxWorkers, pool, cancelFuncs, mu, ctxDone, initializing,
                   initialized, initErrCount, initialization, inGet, i,
                   browserCtx, arg, timer, held, nextCtx, cancelCalls,
                   ephemeral, pooled, attempts, created, runs, runsDone,
                   closeReturned, cleanup,
                   initAfterClose, woken, input, output>>

\* Lines 501-504: take p.mu and cancel p.ctx.
Close_Cancel(t) ==
    /\ pc[t] = "close_lock"
    /\ mu = NoCaller
    /\ mu' = t
    /\ ctxDone' = TRUE
    /\ initAfterClose' = (initAfterClose \/ initializing)
    /\ pc' = [pc EXCEPT ![t] = "close_sleep"]
    /\ UNCHANGED <<maxWorkers, pool, cancelFuncs, initializing, initialized,
                   initErrCount, initialization, inGet, i, browserCtx, arg,
                   timer, held, ret, nextCtx, cancelCalls, ephemeral, pooled,
                   attempts, callAttempts, created, runs, runsDone, joined,
                   startState, closeReturned, cleanup, calls,
                   woken, input, output>>

\* A Close that invokes the stored cancel funcs and keeps the list.
Close_Finish_KeepList(t) ==
    /\ pc[t] = "close_sleep"
    /\ cancelCalls' = [c \in DOMAIN cancelCalls |->
                         IF c \in SetOf(cancelFuncs) THEN cancelCalls[c] + 1
                                                     ELSE cancelCalls[c]]
    /\ initialized' = FALSE
    /\ mu' = NoCaller
    /\ closeReturned' = TRUE
    /\ Return(t, [op |-> "Close", ctx |-> NilCtx, err |-> "nil"])
    /\ UNCHANGED <<maxWorkers, pool, cancelFuncs, ctxDone, initializing,
                   initErrCount, initialization, inGet, i, browserCtx, arg,
                   timer, held, nextCtx, ephemeral, pooled, attempts,
                   callAttempts, created, runs, runsDone, joined, startState,
                   cleanup, calls, initAfterClose, woken, input, output>>

\* Lines 507-514 and the deferred unlock: after the 100 ms sleep every stored
\* cancel func is invoked, the list is dropped and p.initialized is cleared.
Close_Finish(t) ==
    /\ pc[t] = "close_sleep"
    /\ cancelCalls' = [c \in DOMAIN cancelCalls |->
                         IF c \in SetOf(cancelFuncs) THEN cancelCalls[c] + 1
                                                     ELSE cancelCalls[c]]
    /\ cancelFuncs' = <<>>
    /\ initialized' = FALSE
    /\ mu' = NoCaller
    /\ closeReturned' = TRUE
    /\ Return(t, [op |-> "Close", ctx |-> NilCtx, err |-> "nil"])
    /\ UNCHANGED <<maxWorkers, pool, ctxDone, initializing, initErrCount,
                   initialization, inGet, i, browserCtx, arg, timer, held,
                   nextCtx, ephemeral, pooled, attempts, callAttempts, created,
                   runs, runsDone, joined, startState, cleanup, calls,
                   initAfterClose, woken, input, output>>

\* ------------------------------------------------------------------ Next
Next ==
    \/ \E t \in Callers :
         \/ CallInitialize(t)
         \/ Initialize_Skip(t)
         \/ Initialize_Begin(t)
         \/ Initialize_Add(t)
         \/ Initialize_Create(t)
         \/ Initialize_Error(t)
         \/ Initialize_Store(t)
         \/ Initialize_Send(t)
         \/ Initialize_Finish(t)
         \/ Initialize_Outcome(t)
         \/ Initialize_Return(t)
         \/ CallGetContext(t)
         \/ GetContext_Check(t)
         \/ GetContext_WaitCheck(t)
         \/ GetContext_Wait(t)
         \/ GetContext_Woken(t)
         \/ GetContext_InitCheck(t)
         \/ GetContext_OneTime(t)
         \/ GetContext_Recv(t)
         \/ GetContext_Closed(t)
         \/ GetContext_Timeout(t)
         \/ CallReleaseContext(t)
         \/ ReleaseContext_Check(t)
         \/ ReleaseContext_Send(t)
         \/ ReleaseContext_Closed(t)
         \/ ReleaseContext_Timeout(t)
         \/ TimerFire(t)
         \/ CallClose(t)
         \/ Close_Cancel(t)
         \/ Close_Finish(t)
    \/ \E c \in cleanup : OneTimeCleanup(c)

Spec == Init /\ [][Next]_vars

TypeOK ==
    /\ maxWorkers \in 1..MaxWorkers
    /\ Len(pool) <= maxWorkers
    /\ mu \in Callers \cup {NoCaller}
    /\ initialization \in 0..NumCallers
    /\ nextCtx = Len(cancelCalls) + 1

\* ---------------------------------------------------------------- claims
\* The contexts in a caller's hands: those it was handed and has not given
\* back, and the one it is giving back in a ReleaseContext call in progress.
Hands(t) == held[t] \cup (IF arg[t] # NilCtx THEN {arg[t]} ELSE {})

\* C1: callers release only what they hold, once; then no context is in the
\* hands of two callers at the same time, and no context is both in the
\* channel and in a caller's hands.
C1_MutualExclusion ==
    /\ \A t1, t2 \in Callers : t1 # t2 => Hands(t1) \cap Hands(t2) = {}
    /\ \A t \in Callers : Hands(t) \cap SetOf(pool) = {}

\* Two callers each hold a pooled context at the same time.
C1_Witness ==
    \E t1, t2 \in Callers :
        /\ t1 # t2
        /\ held[t1] \cap pooled # {}
        /\ held[t2] \cap pooled # {}

\* C2: the creation attempts made by Initialize over the pool's lifetime
\* never exceed maxWorkers, whatever calls are made.
C2_InitializeOnce == attempts <= maxWorkers

\* C3: a GetContext call started while the pool is Failed makes exactly one
\* creation attempt, never returns the initialization failure, and what it
\* returns on success is the one-time context of that attempt.
C3_FailedFallback ==
    \A t \in Callers :
        (pc[t] = "idle" /\ ret[t].op = "GetContext" /\ startState[t] = "Failed")
        => /\ callAttempts[t] = 1
           /\ ret[t].err # "InitFailed"
           /\ ret[t].ctx # NilCtx => ret[t].ctx \in ephemeral

\* C4: an Initialize call that found another caller's run in progress has
\* not returned before that run finished, and reports that run's result.
C4_InitializeWaits ==
    \A t \in Callers :
        (pc[t] = "idle" /\ ret[t].op = "Initialize" /\ joined[t] > 0)
        => /\ Len(runsDone) >= joined[t]
           /\ (ret[t].err = "nil") <=> runsDone[joined[t]]

\* C5: when the run's last critical section executes with no Close so far,
\* with k the contexts the run created: the run made exactly maxWorkers
\* attempts; k >= 1 gives Ready, a channel holding exactly those k contexts
\* and a nil error; k = 0 gives Failed, an empty channel and the error.
C5_Step(t) ==
    (pc[t] = "init_outcome" /\ pc'[t] \in {"init_ok", "init_failed"}
                            /\ ~ctxDone')
    => LET k == Cardinality(created[t]) IN
       /\ callAttempts'[t] = maxWorkers
       /\ k >= 1 => /\ PoolState' = "Ready"
                    /\ pc'[t] = "init_ok"
                    /\ Len(pool') = k
                    /\ SetOf(pool') = created[t]
       /\ k = 0 => /\ PoolState' = "Failed"
                   /\ pc'[t] = "init_failed"
                   /\ pool' = <<>>

C5_InitializeOutcome == [][\A t \in Callers : C5_Step(t)]_vars

\* A run ends with some, not all, of its attempts successful.
C5_Witness ==
    \E t \in Callers :
        /\ pc[t] = "init_ok"
        /\ ~ctxDone
        /\ created[t] # {}
        /\ Cardinality(created[t]) < maxWorkers
        /\ SetOf(pool) = created[t]

\* C6: no one-time context is ever in the channel.
C6_EphemeralNeverPooled == SetOf(pool) \cap ephemeral = {}

\* C7: once a Close call has returned, no step makes the pool Initializing
\* or Ready, and no Initialize run finishes.
C7_ClosedTerminal ==
    [][closeReturned =>
        /\ ~(~initializing /\ initializing')
        /\ ~(~initialized /\ initialized')
        /\ Len(runsDone') = Len(runsDone)]_vars

\* C8: a GetContext call started after a Close call returned fails with
\* PoolClosed, returns no context and makes no creation attempt.
C8_AcquireAfterClose ==
    \A t \in Callers :
        (pc[t] = "idle" /\ ret[t].op = "GetContext" /\ startState[t] = "Closed")
        => /\ ret[t].err = "PoolClosed"
           /\ ret[t].ctx = NilCtx
           /\ callAttempts[t] = 0

\* C9: once p.ctx is cancelled, a GetContext blocked on the empty channel
\* and a ReleaseContext blocked on the full channel, whose timers have not
\* fired, can return at once, and cannot take the timeout branch; the step
\* by which they return yields PoolClosed, respectively discards the context.
C9_Blocked(t) ==
    /\ (pc[t] = "get_select" /\ pool = <<>>)
       => /\ ENABLED GetContext_Closed(t)
          /\ ~ENABLED GetContext_Timeout(t)
          /\ ~ENABLED TimerFire(t)
    /\ (pc[t] = "rel_select" /\ Len(pool) >= maxWorkers)
       => /\ ENABLED ReleaseContext_Closed(t)
          /\ ~ENABLED ReleaseContext_Timeout(t)
          /\ ~ENABLED TimerFire(t)

C9_Return(t) ==
    (ctxDone /\ timer[t] = "armed" /\ pc'[t] = "idle")
    => /\ (pc[t] = "get_select" /\ pool = <<>>)
          => ret'[t] = [op |-> "GetContext", ctx |-> NilCtx, err |-> "PoolClosed"]
       /\ (pc[t] = "rel_select" /\ Len(pool) >= maxWorkers)
          => (pool' = pool /\ arg'[t] = NilCtx /\ ret'[t].err = "nil")

C9_CloseUnblocks ==
    /\ [](\A t \in Callers : (ctxDone /\ timer[t] = "armed") => C9_Blocked(t))
    /\ [][\A t \in Callers : C9_Return(t)]_vars

\* Close has cancelled p.ctx while a GetContext of a Ready pool is blocked
\* on the empty channel, its timer not fired.
C9_Witness ==
    \E t \in Callers :
        /\ pc[t] = "get_select"
        /\ startState[t] = "Ready"
        /\ pool = <<>>
        /\ timer[t] = "armed"
        /\ ctxDone

\* C10: the cancel func of a context that Initialize pooled is never
\* invoked twice, and has been invoked once a Close call has returned.
C10_ReleasedExactlyOnce ==
    \A c \in pooled :
        /\ cancelCalls[c] <= 1
        /\ closeReturned => cancelCalls[c] = 1

\* The contexts checked out of the buffer: in some caller's hands.
CheckedOut == UNION {Hands(t) : t \in Callers}

\* The context an Initialize run has recorded in cancelFuncs and is about to
\* send to the buffer (lines 416-419, between the append and the send).
InStore == {browserCtx[t] : t \in {u \in Callers : pc[u] = "init_send"}}

\* C11: every pooled context, in the buffer or checked out of it, has exactly
\* one entry in cancelFuncs, cancelFuncs has no entry without such a context,
\* and the buffer never holds a context whose cancel func the pool no longer
\* stores.
C11_CapabilityPerHandle ==
    /\ SetOf(pool) \subseteq SetOf(cancelFuncs)
    /\ SetOf(cancelFuncs) \subseteq (SetOf(pool) \cup CheckedOut \cup InStore)
    /\ \A j, k \in 1..Len(cancelFuncs) :
          cancelFuncs[j] = cancelFuncs[k] => j = k

\* C12: when Close returns, the pool buffer is empty.
C12_CloseEmptiesBuffer ==
    [][\A t \in Callers :
          (pc[t] = "close_sleep" /\ pc'[t] = "idle") => pool' = <<>>]_vars

\* The contexts in the buffer plus the pooled ones checked out are as many
\* as Initialize created.
Conserved ==
    Len(pool) + Cardinality(CheckedOut \cap pooled) = Cardinality(pooled)

\* C13: while the pool is ready and not closed, a caller that releases a
\* pooled context it acquired puts it back in the buffer, and so the contexts
\* in the buffer plus those checked out stay as many as Initialize created.
C13_RoundTrip ==
    /\ []((initialized /\ ~initializing /\ ~ctxDone) => Conserved)
    /\ [][\A t \in Callers :
             (/\ pc[t] = "rel_select" /\ pc'[t] = "idle"
              /\ arg[t] \in pooled /\ initialized /\ ~ctxDone)
             => arg[t] \in SetOf(pool')]_vars

\* C14: a GetContext call on a ready pool that is not closed meanwhile makes
\* no creation attempt, returns either a pooled context (never a one-time
\* one) or the timeout error, and times out only with the buffer found
\* empty: with k contexts buffered and no release, k calls succeed and every
\* further one times out.
C14_AcquireOnReady ==
    /\ \A t \in Callers :
          (/\ pc[t] = "idle" /\ ret[t].op = "GetContext"
           /\ startState[t] = "Ready" /\ ~ctxDone)
          => /\ callAttempts[t] = 0
             /\ ret[t].err \in {"nil", "AcquireTimeout"}
             /\ ret[t].err = "nil" => ret[t].ctx \in pooled \ ephemeral
    /\ \A t \in Callers :
          (pc[t] = "get_select" /\ ~ctxDone /\ timer[t] = "armed")
          => IF pool # <<>> THEN ENABLED GetContext_Recv(t)
                                 /\ ~ENABLED TimerFire(t)
                            ELSE ENABLED TimerFire(t)
                                 /\ ~ENABLED GetContext_Recv(t)

\* C15: the buffer never holds more than maxWorkers contexts, under any
\* interleaving, repeated Initialize runs and releases of contexts of any
\* origin included.
C15_BufferBound == Len(pool) <= maxWorkers

\* A release waits on a full buffer after a second Initialize run.
C15_Witness ==
    /\ Len(pool) = maxWorkers
    /\ runs >= 2
    /\ \E t \in Callers : pc[t] = "rel_select" /\ timer[t] = "fired"

\* The pool was closed by a Close that returned, and no Initialize run has
\* been in progress at or since a Close.
ClosedQuiet == closeReturned /\ ~initAfterClose /\ ~RunInProgress

\* C16: a Close call on a pool an earlier Close already closed, with no
\* Initialize running, terminates (p.mu is free or held by a Close about to
\* release it), invokes no cancel func and leaves the pool state, the buffer,
\* cancelFuncs and the failure counter as the first Close left them.
C16_CloseIdempotent ==
    /\ [](\A t \in Callers :
            (ClosedQuiet /\ pc[t] \in {"close_lock", "close_sleep"})
            => /\ mu = NoCaller \/ pc[mu] = "close_sleep"
               /\ pc[t] = "close_sleep" => ENABLED Close_Finish(t))
    /\ [][\A t \in Callers :
             (ClosedQuiet /\ pc[t] \in {"close_lock", "close_sleep"}
                          /\ pc'[t] # pc[t])
             => /\ cancelCalls' = cancelCalls
                /\ PoolState' = PoolState
                /\ pool' = pool
                /\ cancelFuncs' = cancelFuncs
                /\ initialized' = initialized
                /\ ctxDone' = ctxDone
                /\ initErrCount' = initErrCount]_vars

\* A second Close has returned on a pool whose contexts the first one
\* released.
C16_Witness ==
    /\ ClosedQuiet
    /\ pooled # {}
    /\ \A c \in pooled : cancelCalls[c] = 2
    /\ \E t \in Callers :
          pc[t] = "idle" /\ ret[t].op = "Close" /\ startState[t] = "Closed"

\* C17: every GetContext and ReleaseContext call eventually returns under
\* every interleaving with Initialize and Close: while a call is under way
\* some step can be taken, no call has died in a panic, and a ReleaseContext
\* call that returned reported no error.
C17_CallsReturn ==
    \A t \in Callers :
       /\ pc[t] # "panic"
       /\ pc[t] # "idle" => ENABLED Next
       /\ ret[t].op = "ReleaseContext" => ret[t].err = "nil"

\* ================================================================ Browser
\* Browser.findBrowserPath and Browser.CreateContext as functions of the
\* browser descriptor and of the set of paths that exist on the filesystem.

Chrome == "chrome"
Chromium == "chromium"
Firefox == "firefox"

\* The browserType strings given to NewBrowser; the last is not supported.
BrowserTypes == {Chrome, Chromium, Firefox, "opera"}

\* The customPath strings given to NewBrowser: none, a path outside every
\* candidate list, and one that is also a Chromium candidate.
CustomPaths == {"", "/opt/browser/bin", "/usr/bin/chromium"}

\* Lines 209-242: the candidate list of b.Type, b.Path first when it is set.
initBrowserPaths(b) ==
    LET list ==
          CASE b.Type = Chrome ->
                 <<"/usr/bin/google-chrome",
                   "/usr/bin/google-chrome-stable",
                   "/usr/local/bin/google-chrome",
                   "/Applications/Google Chrome.app/Contents/MacOS/Google Chrome",
                   "C:\\Program Files\\Google\\Chrome\\Application\\chrome.exe",
                   "C:\\Program Files (x86)\\Google\\Chrome\\Application\\chrome.exe">>
            [] b.Type = Chromium ->
                 <<"/usr/bin/chromium",
                   "/usr/bin/chromium-browser",
                   "/usr/local/bin/chromium",
                   "/Applications/Chromium.app/Contents/MacOS/Chromium",
                   "C:\\Program Files\\Chromium\\Application\\chrome.exe">>
            [] b.Type = Firefox ->
                 <<"/usr/bin/firefox",
                   "/usr/local/bin/firefox",
                   "/Applications/Firefox.app/Contents/MacOS/firefox",
                   "C:\\Program Files\\Mozilla Firefox\\firefox.exe",
                   "C:\\Program Files (x86)\\Mozilla Firefox\\firefox.exe">>
            [] OTHER -> <<>>
    IN IF b.Path # "" THEN <<b.Path>> \o list ELSE list

\* Lines 190-206: an unsupported type falls back to Chrome.
NewBrowser(browserType, customPath) ==
    LET b == [Type |-> IF browserType \in {Chrome, Chromium, Firefox}
                       THEN browserType ELSE Chrome,
              Path |-> customPath]
    IN [Type |-> b.Type, Path |-> b.Path, browsers |-> initBrowserPaths(b)]

\* Lines 255-259: the loop over b.browsers; os.Stat succeeds on the paths of
\* exists.
RECURSIVE FirstExisting(_, _)
FirstExisting(paths, exists) ==
    IF paths = <<>> THEN ""
    ELSE IF Head(paths) \in exists THEN Head(paths)
    ELSE FirstExisting(Tail(paths), exists)

\* findBrowserPath returning the last existing candidate.
findBrowserPath_Last(b, exists) ==
    IF b.Path # "" /\ b.Path \in exists
    THEN [path |-> b.Path, err |-> "nil"]
    ELSE LET hits == {k \in 1..Len(b.browsers) : b.browsers[k] \in exists}
         IN IF hits # {}
            THEN [path |-> b.browsers[CHOOSE k \in hits : \A j \in hits : j <= k],
                  err |-> "nil"]
            ELSE [path |-> "", err |-> "BrowserNotFound"]

\* Lines 245-263.
findBrowserPath(b, exists) ==
    IF b.Path # "" /\ b.Path \in exists
    THEN [path |-> b.Path, err |-> "nil"]
    ELSE LET found == FirstExisting(b.browsers, exists)
         IN IF found # "" THEN [path |-> found, err |-> "nil"]
            ELSE [path |-> "", err |-> "BrowserNotFound"]

\* Lines 266-316.  The executable is looked up first (267-276); only then
\* does the switch on b.Type launch Chrome or Chromium (279-308, launchOk:
\* chromedp.Run succeeds) or refuse Firefox (310-312).  launched: a launch
\* attempt was made.
Browser_CreateContext(b, exists, launchOk) ==
    LET f == findBrowserPath(b, exists)
    IN IF f.err # "nil"
       THEN [err |-> "BrowserNotFound", launched |-> FALSE]
       ELSE IF b.Type \in {Chrome, Chromium}
       THEN [err |-> IF launchOk THEN "nil" ELSE "BrowserStartFailed",
             launched |-> TRUE]
       ELSE IF b.Type = Firefox
       THEN [err |-> "FeatureUnavailable", launched |-> FALSE]
       ELSE [err |-> "UnsupportedType", launched |-> FALSE]

\* A browser type, a custom path and a state of the filesystem: which of the
\* paths the descriptor can name exist.
BrowserInit ==
    /\ NewBrowserPool(1)
    /\ \E ty \in BrowserTypes, cp \in CustomPaths :
         \E ex \in SUBSET SetOf(NewBrowser(ty, cp).browsers) :
            input = [type |-> ty, path |-> cp, exists |-> ex]
    /\ output = <<>>

\* b.findBrowserPath() on the descriptor NewBrowser built.
Browser_Find ==
    /\ output = <<>>
    /\ output' = [fn |-> "findBrowserPath",
                  res |-> findBrowserPath(NewBrowser(input.type, input.path),
                                          input.exists)]
    /\ UNCHANGED <<poolVars, input>>

\* b.CreateContext(ctx) on the descriptor NewBrowser built.
Browser_Create ==
    /\ output = <<>>
    /\ \E launchOk \in BOOLEAN :
         output' = [fn |-> "CreateContext",
                    res |-> Browser_CreateContext(
                               NewBrowser(input.type, input.path),
                               input.exists, launchOk)]
    /\ UNCHANGED <<poolVars, input>>

BrowserNext == Browser_Find \/ Browser_Create

BrowserSpec == BrowserInit /\ [][BrowserNext]_vars

\* C18: CreateContext for the Firefox type always fails with the
\* Firefox-unsupported error and makes no launch attempt, whether or not a
\* Firefox executable is found; it never fails with the not-found error.
C18_FirefoxUnavailable ==
    (output # <<>> /\ output.fn = "CreateContext" /\ input.type = Firefox)
    => /\ output.res.err = "FeatureUnavailable"
       /\ ~output.res.launched

\* The candidate list of the descriptor's type, without the override.
Candidates(ty) == initBrowserPaths([Type |-> NewBrowser(ty, "").Type, Path |-> ""])

\* C19: findBrowserPath returns the override when it is set and exists,
\* otherwise the first candidate in list order that exists, and fails with
\* the not-found error exactly when neither the override nor any candidate
\* exists.
C19_Resolve ==
    (output # <<>> /\ output.fn = "findBrowserPath")
    => LET r == output.res
           c == Candidates(input.type)
           override == input.path # "" /\ input.path \in input.exists
           hits == {k \in 1..Len(c) : c[k] \in input.exists}
       IN /\ override => r.err = "nil" /\ r.path = input.path
          /\ (~override /\ hits # {})
             => /\ r.err = "nil"
                /\ \E k \in hits : /\ r.path = c[k]
                                   /\ \A j \in hits : k <= j
          /\ r.err = "BrowserNotFound" <=> (~override /\ hits = {})

\* The override is set and missing, two candidates exist and the first of
\* them was returned.
C19_Witness ==
    /\ output # <<>> /\ output.fn = "findBrowserPath"
    /\ input.path # "" /\ input.path \notin input.exists
    /\ Cardinality(input.exists) >= 2
    /\ output.res.err = "nil"

\* ========================================================== RequestParser
\* RequestParser.ParseRequests as a function of the file: its path, whether
\* os.Open succeeds, the lines bufio.Scanner finds and whether the scan ends
\* with an error.  A string is a sequence of characters; a line is given as
\* the fields strings.Fields finds in it (line 582), so a blank line has none.

GET == <<"G", "E", "T">>

\* Lines 592-595.
validMethods ==
    {GET, <<"P", "O", "S", "T">>, <<"P", "U", "T">>,
     <<"D", "E", "L", "E", "T", "E">>, <<"H", "E", "A", "D">>,
     <<"O", "P", "T", "I", "O", "N", "S">>, <<"P", "A", "T", "C", "H">>}

LowerCase == <<"a", "b", "c", "d", "e", "f", "g", "h", "i", "j", "k", "l", "m",
               "n", "o", "p", "q", "r", "s", "t", "u", "v", "w", "x", "y", "z">>
UpperCase == <<"A", "B", "C", "D", "E", "F", "G", "H", "I", "J", "K", "L", "M",
               "N", "O", "P", "Q", "R", "S", "T", "U", "V", "W", "X", "Y", "Z">>

\* One character in upper case, in lower case.
UpperChar(c) ==
    IF \E j \in 1..Len(LowerCase) : LowerCase[j] = c
    THEN UpperCase[CHOOSE j \in 1..Len(LowerCase) : LowerCase[j] = c]
    ELSE c
LowerChar(c) ==
    IF \E j \in 1..Len(UpperCase) : UpperCase[j] = c
    THEN LowerCase[CHOOSE j \in 1..Len(UpperCase) : UpperCase[j] = c]
    ELSE c

\* strings.ToUpper (line 588).
ToUpper(str) == [k \in 1..Len(str) |-> UpperChar(str[k])]

\* strings.Contains(str, ":") (line 610).
Contains(str, c) == \E k \in 1..Len(str) : str[k] = c

\* strings.SplitN(str, ":", 2) (line 611): at most two parts, cut at the
\* first separator.
SplitN2(str, c) ==
    IF ~Contains(str, c) THEN <<str>>
    ELSE LET k == CHOOSE j \in 1..Len(str) :
                     str[j] = c /\ \A h \in 1..(j - 1) : str[h] # c
         IN <<SubSeq(str, 1, k - 1), SubSeq(str, k + 1, Len(str))>>

\* strings.TrimSpace (lines 613-614).
RECURSIVE TrimSpace(_)
TrimSpace(str) ==
    IF str = <<>> THEN str
    ELSE IF Head(str) = " " THEN TrimSpace(Tail(str))
    ELSE IF str[Len(str)] = " " THEN TrimSpace(SubSeq(str, 1, Len(str) - 1))
    ELSE str

\* http.NewRequest(method, url, nil) (line 601) fails when the URL does not
\* parse; of the URLs given here, the one that starts with a colon (missing
\* protocol scheme).  The new request's Header is the empty map.
NewRequest(method, url) ==
    IF Head(url) = ":" THEN [req |-> <<>>, err |-> "RequestFailed"]
    ELSE [req |-> [Method |-> method, URL |-> url, Header |-> <<>>],
          err |-> "nil"]

\* The characters a header name may be written with for http.Header to
\* canonicalise it: letters, digits and the token punctuation of RFC 7230
\* (but for the backquote, which a TLA+ string cannot hold).
TokenChars ==
    {LowerCase[j] : j \in 1..Len(LowerCase)}
    \cup {UpperCase[j] : j \in 1..Len(UpperCase)}
    \cup {"0", "1", "2", "3", "4", "5", "6", "7", "8", "9"}
    \cup {"!", "#", "$", "%", "&", "'", "*", "+", "-", ".", "^", "_", "|",
          "~"}

\* textproto.CanonicalMIMEHeaderKey, applied by http.Header.Add (line 615):
\* the first letter and every letter after a hyphen in upper case, the other
\* letters in lower case; a name with a character outside TokenChars is left
\* as it is written.
CanonicalMIMEHeaderKey(str) ==
    IF \E k \in 1..Len(str) : str[k] \notin TokenChars THEN str
    ELSE [k \in 1..Len(str) |->
            IF k = 1 \/ str[k - 1] = "-" THEN UpperChar(str[k])
            ELSE LowerChar(str[k])]

\* http.Header.Add (line 615): Header maps the canonical name to the values
\* added under it, in the order they were added.
Header_Add(h, key, value) ==
    LET name == CanonicalMIMEHeaderKey(key)
    IN [n \in DOMAIN h \cup {name} |->
          IF n \in DOMAIN h
          THEN IF n = name THEN Append(h[n], value) ELSE h[n]
          ELSE <<value>>]

\* Lines 607-622: the header fields, in order.
RECURSIVE AddHeaders(_, _)
AddHeaders(req, headerParts) ==
    IF headerParts = <<>> THEN [req |-> req, err |-> "nil"]
    ELSE LET headerPart == Head(headerParts)
         IN IF Contains(headerPart, ":")
            THEN LET hp == SplitN2(headerPart, ":")
                 IN IF Len(hp) = 2
                    THEN AddHeaders(
                           [req EXCEPT !.Header =
                              Header_Add(@, TrimSpace(hp[1]), TrimSpace(hp[2]))],
                           Tail(headerParts))
                    ELSE [req |-> <<>>, err |-> "InvalidHeader"]
            ELSE [req |-> <<>>, err |-> "InvalidHeader"]

\* Lines 580-625.  Every error message starts with "line <lineNum>".
parseRequestLine(parts, lineNum) ==
    IF Len(parts) < 2
    THEN [req |-> <<>>, err |-> "InvalidFormat", line |-> lineNum]
    ELSE IF ToUpper(parts[1]) \notin validMethods
    THEN [req |-> <<>>, err |-> "InvalidMethod", line |-> lineNum]
    ELSE LET r == NewRequest(ToUpper(parts[1]), parts[2])
         IN IF r.err # "nil"
            THEN [req |-> <<>>, err |-> r.err, line |-> lineNum]
            ELSE LET h == AddHeaders(r.req, SubSeq(parts, 3, Len(parts)))
                 IN [req |-> h.req, err |-> h.err, line |-> lineNum]

\* Line 555: the line is empty or starts with "#".
Skipped(parts) == parts = <<>> \/ Head(Head(parts)) = "#"

\* Lines 550-566: the loop over the lines that remain, lineNum counting the
\* lines read so far.  An error ends it with no requests (nil, err).
RECURSIVE ScanLines(_, _, _)
ScanLines(lines, lineNum, requests) ==
    IF lines = <<>> THEN [requests |-> requests, err |-> "nil", line |-> 0]
    ELSE IF Skipped(Head(lines))
    THEN ScanLines(Tail(lines), lineNum + 1, requests)
    ELSE LET r == parseRequestLine(Head(lines), lineNum + 1)
         IN IF r.err # "nil"
            THEN [requests |-> <<>>, err |-> r.err, line |-> r.line]
            ELSE ScanLines(Tail(lines), lineNum + 1, Append(requests, r.req))

\* Lines 533-577.  line = 0: the error message names no line.  The scanner's
\* error is looked at after the loop (line 568), so a line that fails to
\* parse is reported first.
ParseRequests(file) ==
    IF file.FilePath = <<>>
    THEN [requests |-> <<>>, err |-> "NoFilePath", line |-> 0]
    ELSE IF ~file.opens
    THEN [requests |-> <<>>, err |-> "OpenFailed", line |-> 0]
    ELSE LET r == ScanLines(file.lines, 0, <<>>)
         IN IF r.err # "nil" THEN r
            ELSE IF ~file.scanOk
            THEN [requests |-> <<>>, err |-> "ReadFailed", line |-> 0]
            ELSE IF Len(r.requests) = 0
            THEN [requests |-> <<>>, err |-> "NoRequests", line |-> 0]
            ELSE r

\* The fields the lines are made of: methods in and out of the valid set and
\* in lower case, a URL that parses and one that does not, header fields
\* with no colon, one colon (the name in upper case, in lower case, with a
\* hyphen), two colons, and a colon alone.
MethodFields == {GET, <<"g", "e", "t">>, <<"F", "O", "O">>}
UrlFields == {<<"u">>, <<":", "u">>}
HeaderFields == {<<"X">>, <<"X", ":", "a">>, <<"x", ":", "b">>,
                 <<"x", "-", "Y", ":", "a">>, <<"X", ":", "a", ":", "b">>,
                 <<":">>}

\* A blank line, a comment, a lone method, and METHOD URL [Header:Value]...
Lines ==
    {<<>>, << <<"#">> >>, <<GET>>}
    \cup {<<m, u>> \o hs : m \in MethodFields, u \in UrlFields,
                           hs \in UNION {[1..n -> HeaderFields] :
                                            n \in 0..MaxHeaders}}

\* No path given; a path os.Open fails on; a file that opens, with the lines
\* the scanner finds before it ends, cleanly or with an error (a directory,
\* a line longer than the scanner's buffer).
Files ==
    {[FilePath |-> <<>>, opens |-> FALSE, scanOk |-> TRUE, lines |-> <<>>],
     [FilePath |-> <<"f">>, opens |-> FALSE, scanOk |-> TRUE, lines |-> <<>>]}
    \cup [FilePath : {<<"f">>}, opens : {TRUE}, scanOk : BOOLEAN,
          lines : UNION {[1..n -> Lines] : n \in 0..MaxLines}]

ParseInit ==
    /\ NewBrowserPool(1)
    /\ input \in Files
    /\ output = <<>>

\* p.ParseRequests() on the file.
Parse_File ==
    /\ output = <<>>
    /\ output' = ParseRequests(input)
    /\ UNCHANGED <<poolVars, input>>

ParseNext == Parse_File

ParseSpec == ParseInit /\ [][ParseNext]_vars

\* The number of colons in a field.
Colons(str) == Cardinality({k \in 1..Len(str) : str[k] = ":"})

\* A line that is not skipped and has a header field without exactly one
\* colon, or a method that is, in whatever case it is written, outside the
\* valid set.
Malformed(parts) ==
    /\ ~Skipped(parts)
    /\ \/ \E k \in 3..Len(parts) : Colons(parts[k]) # 1
       \/ ToUpper(parts[1]) \notin validMethods

\* C20: parsing a file fails as a whole, with an error naming a line number
\* and no partial list of requests, whenever some line that is neither blank
\* nor a comment has a header field without exactly one colon or a method
\* outside GET, POST, PUT, DELETE, HEAD, OPTIONS, PATCH.
C20_ParseFails ==
    (output # <<>> /\ \E k \in 1..Len(input.lines) : Malformed(input.lines[k]))
    => /\ output.err # "nil"
       /\ output.line # 0
       /\ output.requests = <<>>

\* ========================================================== PayloadParser
\* PayloadParser.ReadLinesFromFile as a function of the file: whether
\* os.Open succeeds, the lines bufio.Scanner finds, as written, and whether
\* the scan ends with an error.

\* The characters the lines are written with: a space, a tab and a letter.
LineChars == {" ", "\t", "a"}

\* strings.TrimSpace (line 42) on a line that may hold tabs: both ends are
\* cut back to the first character that is neither a space nor a tab.
RECURSIVE TrimLine(_)
TrimLine(str) ==
    IF str = <<>> THEN str
    ELSE IF Head(str) \in {" ", "\t"} THEN TrimLine(Tail(str))
    ELSE IF str[Len(str)] \in {" ", "\t"}
         THEN TrimLine(SubSeq(str, 1, Len(str) - 1))
    ELSE str

\* Lines 39-43: every scanned line is trimmed and appended.
RECURSIVE ScanPayloads(_, _)
ScanPayloads(raw, lines) ==
    IF raw = <<>> THEN lines
    ELSE ScanPayloads(Tail(raw), Append(lines, TrimLine(Head(raw))))

\* Lines 32-50: os.Open's error (33-36), the loop, then the scanner's error
\* (45-47), which discards the lines read so far.
ReadLinesFromFile(file) ==
    IF ~file.readable THEN [lines |-> <<>>, err |-> "IOError"]
    ELSE LET lines == ScanPayloads(file.raw, <<>>)
         IN IF ~file.scanOk THEN [lines |-> <<>>, err |-> "ReadFailed"]
            ELSE [lines |-> lines, err |-> "nil"]

RawLines == UNION {[1..n -> LineChars] : n \in 0..MaxLineLen}

\* raw: the lines the scanner finds before it ends; scanOk: it ends at the
\* end of the file and not with an error (a directory, a line longer than
\* the scanner's buffer).
PayloadFiles ==
    [readable : BOOLEAN, scanOk : BOOLEAN,
     raw : UNION {[1..n -> RawLines] : n \in 0..MaxLines}]

ReadInit ==
    /\ NewBrowserPool(1)
    /\ input \in PayloadFiles
    /\ output = <<>>

\* p.ReadLinesFromFile() on the file.
Read_File ==
    /\ output = <<>>
    /\ output' = ReadLinesFromFile(input)
    /\ UNCHANGED <<poolVars, input>>

ReadNext == Read_File

ReadSpec == ReadInit /\ [][ReadNext]_vars

\* A line with no whitespace at either end.
Trimmed(str) ==
    str = <<>> \/ (Head(str) \notin {" ", "\t"} /\ str[Len(str)] \notin {" ", "\t"})

\* The lines of the file that hold something besides whitespace.
NonBlank(raw) == SelectSeq(raw, LAMBDA str : \E k \in 1..Len(str) : str[k] = "a")

\* C21: for every readable file ReadLinesFromFile returns the file's lines,
\* trimmed, in file order, without deduplication and without the lines that
\* are empty after trimming: the result never holds an empty string.  A
\* readable file is one that opens and is read to its end.
C21_ReadLines ==
    (output # <<>> /\ input.readable /\ input.scanOk)
    => /\ output.err = "nil"
       /\ Len(output.lines) = Len(NonBlank(input.raw))
       /\ \A k \in 1..Len(output.lines) :
             /\ output.lines[k] # <<>>
             /\ Trimmed(output.lines[k])
             /\ \E pre, post \in RawLines :
                   NonBlank(input.raw)[k] = pre \o output.lines[k] \o post

\* C22: GetContext creates and returns a one-time context only when the pool
\* is in the Failed state at that moment: never while an Initialize run is
\* in progress and never when the pool is ready, under any interleaving of
\* GetContext and Initialize calls.
C22_EphemeralOnlyWhenFailed ==
    [][\A t \in Callers :
          (pc[t] = "get_onetime" /\ pc'[t] = "idle" /\ ret'[t].err = "nil")
          => PoolState = "Failed"]_vars

\* The contexts CreateContext has just returned to an Initialize run that
\* has not stored them yet (line 402, before line 416).
JustCreated == {browserCtx[t] : t \in {u \in Callers : pc[u] = "init_store"}}

\* C23: a context CreateContext returns has had no cancel func invoked when
\* the caller receives it, and every context in the buffer of a ready pool
\* that is not closed is uncancelled.
C23_HandedOverLive ==
    \A c \in DOMAIN cancelCalls :
       (\/ c \in JustCreated
        \/ c \in SetOf(pool) /\ initialized /\ ~initializing /\ ~ctxDone)
       => cancelCalls[c] = 0

====
